---- MODULE Spec2Model ----
(***************************************************************************)
(* codeitout backend: the auth controller (register, login, logout) and    *)
(* the problem controller (createProblem), as state machines.              *)
(*                                                                         *)
(* Two specifications share the module:                                    *)
(*   ProblemSpec  one createProblem request, split at its await points,    *)
(*                against the Judge0 client and the problem store;         *)
(*   AuthSpec     clients issuing register / login / logout requests that  *)
(*                interleave at the handlers' await points, against the    *)
(*                user store.                                              *)
(***************************************************************************)
EXTENDS Naturals, Sequences, FiniteSets

(***************************************************************************)
(* Bounds of the model.                                                    *)
(***************************************************************************)
\* longest referenceSolutions mapping of a draft
MaxLangs == 2
\* longest freely chosen testCases sequence of a draft
MaxTests == 2
\* requests the clients issue in one behaviour of AuthSpec
MaxRequests == 3

(***************************************************************************)
(* Program constants.                                                      *)
(***************************************************************************)
\* "TODO: CONVERT SUBMISSION TO CHUNKS OF 20": the judge's batch limit
MaxBatchSize == 20
\* result.status.id !== 3: Judge0's "Accepted"
Accepted == 3

(***************************************************************************)
(* Input domains.                                                          *)
(***************************************************************************)
Languages == {"PYTHON", "JAVASCRIPT", "BRAINFUN"}
Sources == {"print(input())", "print(5)", "print(("}
Inputs == {"5", "6"}
Outputs == {"5", "6"}

TestCase == [input : Inputs, output : Outputs]
Solution == [language : Languages, code : Sources]

\* sequences over S of length 0..n
RECURSIVE SeqsUpTo(_, _)
SeqsUpTo(S, n) ==
    IF n = 0 THEN {<<>>}
    ELSE LET shorter == SeqsUpTo(S, n - 1)
         IN shorter \cup {Append(s, x) : s \in {t \in shorter : Len(t) = n - 1}, x \in S}

\* Object.entries(referenceSolutions): the keys of a mapping are distinct
DistinctLanguages(rs) ==
    \A a, b \in 1..Len(rs) : rs[a].language = rs[b].language => a = b

ReferenceSolutionsDomain == {rs \in SeqsUpTo(Solution, MaxLangs) : DistinctLanguages(rs)}

\* lengths beyond the judge's batch limit: the first n > 20, and 45
OverLimitLens == {MaxBatchSize + 1, 45}

TestCasesDomain ==
    SeqsUpTo(TestCase, MaxTests)
        \cup {[i \in 1..n |-> tc] : n \in OverLimitLens, tc \in TestCase}

(***************************************************************************)
(* State.                                                                  *)
(***************************************************************************)
VARIABLES
    \* ---- createProblem (ProblemSpec) ----
    ppc,            \* position of the createProblem handler
    reqUser,        \* req.user, set by the auth middleware
    body,           \* req.body
    langIdx,        \* position of the for..of loop over Object.entries(referenceSolutions)
    submissions,    \* the current language's submissions
    tokens,         \* the current language's tokens
    judgeUnits,     \* the judge: every unit it accepted; a unit's token is its position
    judgeLog,       \* history: the judge calls createProblem made, in order
    allResults,     \* history: per judged language, the results pollBatchResults returned
    judgeFailure,   \* history: the error a judge call threw, <<>> if none
    pres,           \* the HTTP response of createProblem, <<>> until sent
    problems,       \* the problem store (db.problem)
    storeCalls,     \* history: db.problem.create calls of the run
    \* ---- register / login / logout (AuthSpec) ----
    users,          \* the user store (db.user)
    apc,            \* per client: position of the running handler
    areq,           \* per client: the request (handler and req.body)
    found,          \* per client: the handler's local existingUser / user
    cookie,         \* per client: the jwt cookie the client holds, <<>> if none
    ares,           \* per client: the HTTP response, <<>> until sent
    existedAtCall,  \* history, per client: the email was taken when the request arrived
    created,        \* history, per client: the request created a user record
    hashed,         \* per client: register's local hashedPassword
    sessionsIssued, \* history, per email: register responses that set a session cookie
    nreq,           \* requests issued so far
    threw,          \* history, per client: the error the handler's catch caught, <<>> if none
    controller,     \* the controller file the auth routes are wired to
    jwtSecret       \* process.env.JWT_SECRET

pvars == <<ppc, reqUser, body, langIdx, submissions, tokens, judgeUnits, judgeLog,
           allResults, judgeFailure, pres, problems, storeCalls>>
avars == <<users, apc, areq, found, hashed, cookie, ares, existedAtCall, created,
           sessionsIssued, nreq, threw, controller, jwtSecret>>
vars == <<pvars, avars>>

(***************************************************************************)
(* Judge0 client (libs/judge0.lib.js) and the remote judge.                *)
(***************************************************************************)
\* static language table; 0 stands for the lookup's undefined
getJudge0LanguageId(language) ==
    CASE language = "PYTHON" -> 71
      [] language = "JAVASCRIPT" -> 63
      [] OTHER -> 0

\* what the judge's run of a source prints on a stdin; <<>> when it does not compile
Run(source, stdin) ==
    CASE source = "print(input())" -> <<stdin>>
      [] source = "print(5)" -> <<"5">>
      [] OTHER -> <<>>

\* the terminal result of one unit: 3 Accepted, 4 Wrong Answer, 6 Compilation Error
JudgeResult(token, unit) ==
    LET out == Run(unit.source_code, unit.stdin)
    IN [token |-> token,
        stdout |-> out,
        status |-> [id |-> IF out = <<>> THEN 6
                           ELSE IF out[1] = unit.expected_output THEN Accepted
                           ELSE 4]]

\* submitBatch: one token per unit, in order
submitBatch(units, accepted) ==
    [i \in 1..Len(units) |-> [token |-> Len(accepted) + i]]

\* pollBatchResults: one terminal result per token, in order
pollBatchResults(toks, accepted) ==
    [i \in 1..Len(toks) |-> JudgeResult(toks[i], accepted[toks[i]])]

\* the remote service takes a batch of at most its limit and refuses a larger one
JudgeAccepts(units) == Len(units) <= MaxBatchSize

SubmitErrors == {"JudgeUnavailable", "JudgeProtocolError"}
PollErrors == {"JudgeUnavailable", "JudgeProtocolError", "JudgeTimeout"}

(***************************************************************************)
(* createProblem.                                                          *)
(***************************************************************************)
RequestUsers == {[id |-> "u-admin", role |-> "ADMIN"], [id |-> "u-user", role |-> "USER"]}
Bodies == [title : {"Echo"}, testCases : TestCasesDomain,
           referenceSolutions : ReferenceSolutionsDomain]

Response(status, error, details, problem) ==
    [status |-> status, error |-> error, details |-> details, problem |-> problem]

\* Step 1: req.user.role !== 'ADMIN'
IsAdmin_anyone(user) == TRUE
IsAdmin(user) == user.role = "ADMIN"

\* Step 2.1: if (!languageId)
Unsupported_never(languageId) == FALSE
Unsupported(languageId) == languageId = 0

\* Step 2.2: testCases.map(...)
BuildSubmissions(testCases, solutionCode, languageId) ==
    [i \in 1..Len(testCases) |->
        [source_code |-> solutionCode,
         language_id |-> languageId,
         stdin |-> testCases[i].input,
         expected_output |-> testCases[i].output]]

\* Step 2.6: the first i with results[i].status.id !== 3, 0 when the loop runs out
FirstFailure_firstOnly(results) ==
    IF Len(results) > 0 /\ results[1].status.id # Accepted THEN 1 ELSE 0
FirstFailure_last(results) ==
    LET bad == {i \in 1..Len(results) : results[i].status.id # Accepted}
    IN IF bad = {} THEN 0 ELSE CHOOSE i \in bad : \A j \in bad : j <= i
FirstFailure(results) ==
    LET bad == {i \in 1..Len(results) : results[i].status.id # Accepted}
    IN IF bad = {} THEN 0 ELSE CHOOSE i \in bad : \A j \in bad : i <= j

Entries == body.referenceSolutions

InitProblem ==
    /\ ppc = "idle"
    /\ reqUser = [id |-> "none", role |-> "none"]
    /\ body = [title |-> "", testCases |-> <<>>, referenceSolutions |-> <<>>]
    /\ langIdx = 0
    /\ submissions = <<>>
    /\ tokens = <<>>
    /\ judgeUnits = <<>>
    /\ judgeLog = <<>>
    /\ allResults = <<>>
    /\ judgeFailure = <<>>
    /\ pres = <<>>
    /\ problems = <<>>
    /\ storeCalls = 0

\* POST /api/v1/problems arrives, the auth middleware has set req.user
ReceiveCreateProblem ==
    /\ ppc = "idle"
    /\ \E u \in RequestUsers, b \in Bodies :
        /\ reqUser' = u
        /\ body' = b
    /\ ppc' = "authorize"
    /\ UNCHANGED <<langIdx, submissions, tokens, judgeUnits, judgeLog, allResults,
                   judgeFailure, pres, problems>>
    /\ UNCHANGED storeCalls
    /\ UNCHANGED avars

\* Step 1
Authorize ==
    /\ ppc = "authorize"
    /\ IF IsAdmin(reqUser)
       THEN /\ ppc' = "loop"
            /\ langIdx' = 1
            /\ pres' = pres
       ELSE /\ ppc' = "done"
            /\ langIdx' = langIdx
            /\ pres' = <<Response(401, <<"Unauthorized">>, <<>>, <<>>)>>
    /\ UNCHANGED <<reqUser, body, submissions, tokens, judgeUnits, judgeLog, allResults,
                   judgeFailure, problems>>
    /\ UNCHANGED storeCalls
    /\ UNCHANGED avars

\* Step 2.1, the language is not in the table
RejectLanguage ==
    /\ ppc = "loop"
    /\ langIdx <= Len(Entries)
    /\ Unsupported(getJudge0LanguageId(Entries[langIdx].language))
    /\ pres' = <<Response(400, <<"Unsupported language: ", Entries[langIdx].language>>,
                          <<>>, <<>>)>>
    /\ ppc' = "done"
    /\ UNCHANGED <<reqUser, body, langIdx, submissions, tokens, judgeUnits, judgeLog,
                   allResults, judgeFailure, problems>>
    /\ UNCHANGED storeCalls
    /\ UNCHANGED avars

\* Steps 2.2 and 2.3: build the submissions and call submitBatch with all of them
SubmitLanguage ==
    /\ ppc = "loop"
    /\ langIdx <= Len(Entries)
    /\ ~Unsupported(getJudge0LanguageId(Entries[langIdx].language))
    /\ submissions' = BuildSubmissions(body.testCases, Entries[langIdx].code,
                                       getJudge0LanguageId(Entries[langIdx].language))
    /\ judgeLog' = Append(judgeLog, [op |-> "submitBatch", lang |-> langIdx,
                                     size |-> Len(submissions')])
    /\ ppc' = "awaitSubmit"
    /\ UNCHANGED <<reqUser, body, langIdx, tokens, judgeUnits, allResults, judgeFailure,
                   pres, problems>>
    /\ UNCHANGED storeCalls
    /\ UNCHANGED avars

\* catch (error): 500 whatever was thrown
Catch ==
    /\ pres' = <<Response(500, <<"Failed to create problem">>, <<>>, <<>>)>>
    /\ ppc' = "done"

\* submitBatch resolves; Steps 2.4 and 2.5: take the tokens, call pollBatchResults
SubmitBatchReturns ==
    /\ ppc = "awaitSubmit"
    /\ JudgeAccepts(submissions)
    /\ tokens' = [i \in 1..Len(submissions) |-> submitBatch(submissions, judgeUnits)[i].token]
    /\ judgeUnits' = judgeUnits \o submissions
    /\ judgeLog' = Append(judgeLog, [op |-> "pollBatchResults", lang |-> langIdx,
                                     size |-> Len(tokens')])
    /\ ppc' = "awaitPoll"
    /\ UNCHANGED <<reqUser, body, langIdx, submissions, allResults, judgeFailure, pres,
                   problems>>
    /\ UNCHANGED storeCalls
    /\ UNCHANGED avars

\* submitBatch rejects: the service is unreachable, answers garbage, or refuses
\* a batch over its limit
SubmitBatchFails ==
    /\ ppc = "awaitSubmit"
    /\ \E kind \in SubmitErrors : judgeFailure' = <<kind>>
    /\ Catch
    /\ UNCHANGED <<reqUser, body, langIdx, submissions, tokens, judgeUnits, judgeLog,
                   allResults, problems>>
    /\ UNCHANGED storeCalls
    /\ UNCHANGED avars

\* pollBatchResults resolves; Step 2.6: scan the results
ValidateResults ==
    /\ ppc = "awaitPoll"
    /\ LET results == pollBatchResults(tokens, judgeUnits)
           i == FirstFailure(results)
       IN /\ allResults' = Append(allResults, results)
          /\ IF i # 0
             THEN /\ pres' = <<Response(400,
                                   <<"Validation failed for ", Entries[langIdx].language,
                                     " on input: ", submissions[i].stdin>>,
                                   <<results[i]>>, <<>>)>>
                  /\ ppc' = "done"
                  /\ langIdx' = langIdx
             ELSE /\ pres' = pres
                  /\ ppc' = "loop"
                  /\ langIdx' = langIdx + 1
    /\ UNCHANGED <<reqUser, body, submissions, tokens, judgeUnits, judgeLog, judgeFailure,
                   problems>>
    /\ UNCHANGED storeCalls
    /\ UNCHANGED avars

\* pollBatchResults rejects
PollFails ==
    /\ ppc = "awaitPoll"
    /\ \E kind \in PollErrors : judgeFailure' = <<kind>>
    /\ Catch
    /\ UNCHANGED <<reqUser, body, langIdx, submissions, tokens, judgeUnits, judgeLog,
                   allResults, problems>>
    /\ UNCHANGED storeCalls
    /\ UNCHANGED avars

\* Step 3: the loop has run out, db.problem.create is called and awaited
CallCreate ==
    /\ ppc = "loop"
    /\ langIdx > Len(Entries)
    /\ storeCalls' = storeCalls + 1
    /\ ppc' = "awaitCreate"
    /\ UNCHANGED <<reqUser, body, langIdx, submissions, tokens, judgeUnits, judgeLog,
                   allResults, judgeFailure, pres, problems>>
    /\ UNCHANGED avars

\* db.problem.create resolves with the stored record; Step 4: 201
SaveProblem ==
    /\ ppc = "awaitCreate"
    /\ LET newProblem == [title |-> body.title,
                          testCases |-> body.testCases,
                          referenceSolutions |-> body.referenceSolutions,
                          userId |-> reqUser.id]
       IN /\ problems' = Append(problems, newProblem)
          /\ pres' = <<Response(201, <<"Problem created successfully">>, <<>>,
                                <<newProblem>>)>>
    /\ ppc' = "done"
    /\ UNCHANGED <<reqUser, body, langIdx, submissions, tokens, judgeUnits, judgeLog,
                   allResults, judgeFailure, storeCalls>>
    /\ UNCHANGED avars

\* db.problem.create rejects, catch: 500 and nothing stored
SaveProblemFails ==
    /\ ppc = "awaitCreate"
    /\ Catch
    /\ UNCHANGED <<reqUser, body, langIdx, submissions, tokens, judgeUnits, judgeLog,
                   allResults, judgeFailure, problems, storeCalls>>
    /\ UNCHANGED avars

ProblemNext ==
    \/ ReceiveCreateProblem
    \/ Authorize
    \/ RejectLanguage
    \/ SubmitLanguage
    \/ SubmitBatchReturns
    \/ SubmitBatchFails
    \/ ValidateResults
    \/ PollFails
    \/ CallCreate
    \/ SaveProblem
    \/ SaveProblemFails

(***************************************************************************)
(* The user store (Prisma's db.user), bcrypt and jwt.                      *)
(***************************************************************************)
Clients == {"c1", "c2"}
Emails == {"a@x.io", "b@x.io"}
Passwords == {"pw1", "pw2"}
\* a body without a password field
NoPassword == "undefined"
Names == {"Ann"}

\* the two controller files that export register, login and logout: login is
\* implemented in the second only
Controllers == {"controllers/auth.controller.js", "unnamed/part_000"}

\* process.env.JWT_SECRET: a value, or "" when the variable is not set
JwtSecrets == {"s3cret", ""}

\* db.user.findUnique({ where: { email } }): <<>> stands for null
findUnique(store, email) ==
    IF \E u \in store : u.email = email
    THEN <<CHOOSE u \in store : u.email = email>>
    ELSE <<>>

\* email String @unique: db.user.create throws when the email is taken
EmailTaken(store, email) == \E u \in store : u.email = email

\* a rejection of a db.user call for a reason of the database's own
DbErrors == {"db down"}

\* id String @id @default(uuid()), role UserRole.USER
NewUser(store, email, hashedPassword, name) ==
    [id |-> Cardinality(store) + 1, email |-> email, password |-> hashedPassword,
     name |-> name, role |-> "USER"]

\* bcrypt.hash(password, 10) and bcrypt.compare(password, hash); both throw on a
\* password that is not a string
BcryptThrows(password) == password = NoPassword
Hash(password) == <<"$2a$10$", password>>
Compare(password, hash) == hash = Hash(password)

\* jwt.sign({ id }, JWT_SECRET, { expiresIn: "7d" }); throws without a secret
SignThrows(secret) == secret = ""
Sign(id) == [id |-> id, expiresIn |-> "7d"]

\* the user object of the 201 bodies
PublicUser(u) == [id |-> u.id, email |-> u.email, name |-> u.name, role |-> u.role]

AuthResponse(status, message, user, setCookie) ==
    [status |-> status, message |-> message, user |-> user, setCookie |-> setCookie]

NoRequest == [op |-> "none", email |-> "", password |-> "", name |-> ""]

InitAuth ==
    /\ controller \in Controllers
    /\ jwtSecret \in JwtSecrets
    /\ users = {}
    /\ apc = [c \in Clients |-> "idle"]
    /\ areq = [c \in Clients |-> NoRequest]
    /\ found = [c \in Clients |-> <<>>]
    /\ hashed = [c \in Clients |-> <<>>]
    /\ cookie = [c \in Clients |-> <<>>]
    /\ ares = [c \in Clients |-> <<>>]
    /\ threw = [c \in Clients |-> <<>>]
    /\ existedAtCall = [c \in Clients |-> FALSE]
    /\ created = [c \in Clients |-> FALSE]
    /\ sessionsIssued = [e \in Emails |-> 0]
    /\ nreq = 0

\* a request reaches its handler
Arrives(c, op, email, password, name) ==
    /\ apc[c] = "idle"
    /\ nreq < MaxRequests
    /\ nreq' = nreq + 1
    /\ areq' = [areq EXCEPT ![c] = [op |-> op, email |-> email, password |-> password,
                                    name |-> name]]
    /\ apc' = [apc EXCEPT ![c] = op]
    /\ found' = [found EXCEPT ![c] = <<>>]
    /\ hashed' = [hashed EXCEPT ![c] = <<>>]
    /\ ares' = [ares EXCEPT ![c] = <<>>]
    /\ threw' = [threw EXCEPT ![c] = <<>>]
    /\ existedAtCall' = [existedAtCall EXCEPT ![c] = EmailTaken(users, email)]
    /\ created' = [created EXCEPT ![c] = FALSE]
    /\ UNCHANGED <<controller, jwtSecret, users, cookie, sessionsIssued>>
    /\ UNCHANGED pvars

\* res.cookie(...) and res.status(..).json(..): the client stores a cookie that is set
Respond(c, r) ==
    /\ ares' = [ares EXCEPT ![c] = <<r>>]
    /\ cookie' = [cookie EXCEPT ![c] = IF r.setCookie = <<>> THEN @ ELSE r.setCookie]
    /\ apc' = [apc EXCEPT ![c] = "idle"]

(***************************************************************************)
(* register.                                                               *)
(***************************************************************************)
RegisterArrives(c) ==
    /\ apc[c] = "idle"
    /\ \E e \in Emails, p \in Passwords \cup {NoPassword}, n \in Names :
        Arrives(c, "register", e, p, n)

\* if (existingUser)
Exists_never(existingUser) == FALSE
Exists(existingUser) == existingUser # <<>>

\* the catch falling through to the success path
RegisterCatch_swallow(c, message) ==
    /\ Respond(c, AuthResponse(201, <<"User registered successfully">>, <<>>,
                               <<Sign(0)>>))
    /\ threw' = [threw EXCEPT ![c] = <<message>>]
    /\ sessionsIssued' = [sessionsIssued EXCEPT ![areq[c].email] = @ + 1]

\* catch (error): 500 with error.message, no cookie
RegisterCatch(c, message) ==
    /\ Respond(c, AuthResponse(500, <<message>>, <<>>, <<>>))
    /\ threw' = [threw EXCEPT ![c] = <<message>>]
    /\ UNCHANGED sessionsIssued

\* await db.user.findUnique resolves, then the existingUser check
RegisterLookup(c) ==
    /\ apc[c] = "register"
    /\ found' = [found EXCEPT ![c] = findUnique(users, areq[c].email)]
    /\ IF Exists(found'[c])
       THEN Respond(c, AuthResponse(400, <<"User already exists">>, <<>>, <<>>))
       ELSE /\ apc' = [apc EXCEPT ![c] = "register_hash"]
            /\ UNCHANGED <<ares, cookie>>
    /\ UNCHANGED <<controller, jwtSecret, users, areq, hashed, threw, existedAtCall,
                   created, sessionsIssued, nreq>>
    /\ UNCHANGED pvars

\* await db.user.findUnique rejects
RegisterLookupFails(c) ==
    /\ apc[c] = "register"
    /\ \E e \in DbErrors : RegisterCatch(c, e)
    /\ UNCHANGED <<controller, jwtSecret, users, areq, found, hashed, existedAtCall,
                   created, nreq>>
    /\ UNCHANGED pvars

\* await bcrypt.hash(password, 10)
RegisterHash(c) ==
    /\ apc[c] = "register_hash"
    /\ IF BcryptThrows(areq[c].password)
       THEN /\ RegisterCatch(c, "Illegal arguments: undefined, number")
            /\ UNCHANGED hashed
       ELSE /\ hashed' = [hashed EXCEPT ![c] = <<Hash(areq[c].password)>>]
            /\ apc' = [apc EXCEPT ![c] = "register_create"]
            /\ UNCHANGED <<cookie, ares, threw, sessionsIssued>>
    /\ UNCHANGED <<controller, jwtSecret, users, areq, found, existedAtCall, created, nreq>>
    /\ UNCHANGED pvars

\* await db.user.create: throws on a taken email; else the record is stored, then
\* jwt.sign (throws without a secret), res.cookie, 201
RegisterCreate(c) ==
    /\ apc[c] = "register_create"
    /\ IF EmailTaken(users, areq[c].email)
       THEN /\ RegisterCatch(c, "Unique constraint failed on the fields: (email)")
            /\ UNCHANGED <<users, created>>
       ELSE LET newUser == NewUser(users, areq[c].email, hashed[c][1], areq[c].name)
            IN /\ users' = users \cup {newUser}
               /\ created' = [created EXCEPT ![c] = TRUE]
               /\ IF SignThrows(jwtSecret)
                  THEN RegisterCatch(c, "secretOrPrivateKey must have a value")
                  ELSE /\ sessionsIssued' =
                            [sessionsIssued EXCEPT ![areq[c].email] = @ + 1]
                       /\ Respond(c, AuthResponse(201, <<"User registered successfully">>,
                                                  <<PublicUser(newUser)>>,
                                                  <<Sign(newUser.id)>>))
                       /\ UNCHANGED threw
    /\ UNCHANGED <<controller, jwtSecret, areq, found, hashed, existedAtCall, nreq>>
    /\ UNCHANGED pvars

\* await db.user.create rejects for a reason of the database's own
RegisterCreateFails(c) ==
    /\ apc[c] = "register_create"
    /\ \E e \in DbErrors : RegisterCatch(c, e)
    /\ UNCHANGED <<controller, jwtSecret, users, areq, found, hashed, existedAtCall,
                   created, nreq>>
    /\ UNCHANGED pvars

(***************************************************************************)
(* login.                                                                  *)
(***************************************************************************)
LoginArrives(c) ==
    /\ apc[c] = "idle"
    /\ \E e \in Emails, p \in Passwords \cup {NoPassword} : Arrives(c, "login", e, p, "")

\* controllers/auth.controller.js: export const login = async (req, res) => {};
\* returns, nothing sent
LoginStub(c) ==
    /\ apc[c] = "login"
    /\ controller = "controllers/auth.controller.js"
    /\ apc' = [apc EXCEPT ![c] = "idle"]
    /\ UNCHANGED <<controller, jwtSecret, users, areq, found, hashed, cookie, ares, threw,
                   existedAtCall, created, sessionsIssued, nreq>>
    /\ UNCHANGED pvars

\* catch (error): 500 "Error logging in user", no cookie
LoginCatch(c, message) ==
    /\ Respond(c, AuthResponse(500, <<"Error logging in user">>, <<>>, <<>>))
    /\ threw' = [threw EXCEPT ![c] = <<message>>]

\* await db.user.findUnique resolves, then if (!user)
LoginLookup(c) ==
    /\ apc[c] = "login"
    /\ controller = "unnamed/part_000"
    /\ found' = [found EXCEPT ![c] = findUnique(users, areq[c].email)]
    /\ IF found'[c] = <<>>
       THEN Respond(c, AuthResponse(401, <<"User not found">>, <<>>, <<>>))
       ELSE /\ apc' = [apc EXCEPT ![c] = "login_compare"]
            /\ UNCHANGED <<ares, cookie>>
    /\ UNCHANGED <<controller, jwtSecret, users, areq, hashed, threw, existedAtCall,
                   created, sessionsIssued, nreq>>
    /\ UNCHANGED pvars

\* await db.user.findUnique rejects
LoginLookupFails(c) ==
    /\ apc[c] = "login"
    /\ controller = "unnamed/part_000"
    /\ \E e \in DbErrors : LoginCatch(c, e)
    /\ UNCHANGED <<controller, jwtSecret, users, areq, found, hashed, existedAtCall,
                   created, sessionsIssued, nreq>>
    /\ UNCHANGED pvars

\* const isMatch = await bcrypt.compare(password, user.password)
IsMatch(password, hash) == Compare(password, hash)

\* await bcrypt.compare (throws on a missing password), then if (!isMatch), else
\* jwt.sign (throws without a secret), res.cookie, 201
LoginCompare(c) ==
    /\ apc[c] = "login_compare"
    /\ LET user == found[c][1]
       IN IF BcryptThrows(areq[c].password)
          THEN LoginCatch(c, "Illegal arguments: undefined, string")
          ELSE IF ~IsMatch(areq[c].password, user.password)
          THEN /\ Respond(c, AuthResponse(401, <<"Invalid credentials">>, <<>>, <<>>))
               /\ UNCHANGED threw
          ELSE IF SignThrows(jwtSecret)
          THEN LoginCatch(c, "secretOrPrivateKey must have a value")
          ELSE /\ Respond(c, AuthResponse(201, <<"User logged in successfully">>,
                                          <<PublicUser(user)>>, <<Sign(user.id)>>))
               /\ UNCHANGED threw
    /\ UNCHANGED <<controller, jwtSecret, users, areq, found, hashed, existedAtCall,
                   created, sessionsIssued, nreq>>
    /\ UNCHANGED pvars

(***************************************************************************)
(* logout.                                                                 *)
(***************************************************************************)
\* authRoutes.post("/logout", authMiddleware, logout): the cookie verifies and
\* its user exists
ValidSession(c) ==
    /\ cookie[c] # <<>>
    /\ \E u \in users : u.id = cookie[c][1].id

LogoutArrives(c) ==
    /\ ValidSession(c)
    /\ Arrives(c, "logout", "", "", "")

\* export const logout = async (req, res) => {}: returns, nothing sent, nothing cleared
Logout(c) ==
    /\ apc[c] = "logout"
    /\ apc' = [apc EXCEPT ![c] = "idle"]
    /\ UNCHANGED <<controller, jwtSecret, users, areq, found, hashed, cookie, ares, threw,
                   existedAtCall, created, sessionsIssued, nreq>>
    /\ UNCHANGED pvars

AuthNext ==
    \E c \in Clients :
        \/ RegisterArrives(c)
        \/ RegisterLookup(c)
        \/ RegisterLookupFails(c)
        \/ RegisterHash(c)
        \/ RegisterCreate(c)
        \/ RegisterCreateFails(c)
        \/ LoginArrives(c)
        \/ LoginStub(c)
        \/ LoginLookup(c)
        \/ LoginLookupFails(c)
        \/ LoginCompare(c)
        \/ LogoutArrives(c)
        \/ Logout(c)

(***************************************************************************)
(* Specifications.                                                         *)
(***************************************************************************)
Init == InitProblem /\ InitAuth

ProblemSpec == Init /\ [][ProblemNext]_vars

AuthSpec == Init /\ [][AuthNext]_vars

(***************************************************************************)
(* Properties of createProblem (ProblemSpec).                              *)
(***************************************************************************)
TestCases == body.testCases

\* the submission unit of reference solution k and test case i
UnitOf(k, i) ==
    [source_code |-> Entries[k].code,
     language_id |-> getJudge0LanguageId(Entries[k].language),
     stdin |-> TestCases[i].input,
     expected_output |-> TestCases[i].output]

\* the test cases of judged language k whose result is not Accepted
NotAccepted(k) == {i \in 1..Len(allResults[k]) : allResults[k][i].status.id # Accepted}

Least(S) == CHOOSE i \in S : \A j \in S : i <= j

\* the position of the first language the table does not resolve, 0 if all resolve
FirstUnresolved ==
    LET bad == {k \in 1..Len(Entries) : getJudge0LanguageId(Entries[k].language) = 0}
    IN IF bad = {} THEN 0 ELSE Least(bad)

IsUnsupportedResponse(r) == r.status = 400 /\ r.error[1] = "Unsupported language: "

\* C1: db.problem.create is called (and the store holds a problem) only if the
\* judge returned, for every reference solution and every test case, a result for
\* that very pair with status Accepted.
C1_AllOrNothing ==
    (storeCalls > 0 \/ problems # <<>>) =>
        /\ Len(allResults) = Len(Entries)
        /\ \A k \in 1..Len(Entries) :
            /\ Len(allResults[k]) = Len(TestCases)
            /\ \A i \in 1..Len(TestCases) :
                /\ allResults[k][i].status.id = Accepted
                /\ judgeUnits[allResults[k][i].token] = UnitOf(k, i)

C1_Witness ==
    /\ problems # <<>>
    /\ Len(Entries) = 2
    /\ Len(TestCases) = 2
    /\ TestCases[1] # TestCases[2]

\* C2 as stated: an ADMIN's draft with an unresolved language anywhere in the mapping
\* ends with the unsupported-language error, no submitBatch call and nothing stored.
C2_Original ==
    (reqUser.role = "ADMIN" /\ FirstUnresolved # 0) =>
        /\ \A n \in 1..Len(judgeLog) : judgeLog[n].op # "submitBatch"
        /\ storeCalls = 0
        /\ problems = <<>>
        /\ ppc = "done" => IsUnsupportedResponse(pres[1])

\* C2 amended: a draft with an unresolved language is never stored and no judge call
\* is made for the first unresolved language or any later one; the languages before
\* it are judged first, and an ADMIN's run ends with the unsupported-language error
\* naming it exactly when all of them were judged Accepted (always, and with no
\* judge call at all, when it is first in the mapping).
C2_UnsupportedLanguage ==
    FirstUnresolved # 0 =>
        /\ storeCalls = 0
        /\ problems = <<>>
        /\ \A n \in 1..Len(judgeLog) : judgeLog[n].lang < FirstUnresolved
        /\ (ppc = "done" /\ reqUser.role = "ADMIN") =>
            LET earlierPassed ==
                    /\ Len(allResults) = FirstUnresolved - 1
                    /\ \A k \in 1..Len(allResults) : NotAccepted(k) = {}
                    /\ judgeFailure = <<>>
            IN /\ earlierPassed <=> IsUnsupportedResponse(pres[1])
               /\ earlierPassed =>
                    pres = <<Response(400, <<"Unsupported language: ",
                                             Entries[FirstUnresolved].language>>,
                                      <<>>, <<>>)>>

C2_Witness ==
    /\ ppc = "done"
    /\ FirstUnresolved = 2
    /\ IsUnsupportedResponse(pres[1])
    /\ Len(judgeLog) = 2
    /\ Len(TestCases) > 0

\* the test cases the error message's input stands for
ReportedIndices == {j \in 1..Len(TestCases) : TestCases[j].input = pres[1].error[4]}

DistinctInputs ==
    \A a, b \in 1..Len(TestCases) : TestCases[a].input = TestCases[b].input => a = b

\* what C3 has in common with its amendment: for the first pair (k, i) judged not
\* Accepted, the run ends with 400 naming language k and test case i's input, with
\* result i as details, nothing is stored and no later language is judged
FirstFailureReported(k, i) ==
    /\ \A k2 \in 1..(k - 1) : NotAccepted(k2) = {}
    /\ ppc = "done"
    /\ pres = <<Response(400, <<"Validation failed for ", Entries[k].language,
                                " on input: ", TestCases[i].input>>,
                         <<allResults[k][i]>>, <<>>)>>
    /\ allResults[k][i].token <= Len(judgeUnits)
    /\ judgeUnits[allResults[k][i].token] = UnitOf(k, i)
    /\ storeCalls = 0
    /\ problems = <<>>
    /\ \A n \in 1..Len(judgeLog) : judgeLog[n].lang <= k

\* C3 as stated: the error identifies exactly language L and test case index i.
C3_Original ==
    \A k \in 1..Len(allResults) :
        NotAccepted(k) # {} =>
            /\ FirstFailureReported(k, Least(NotAccepted(k)))
            /\ ReportedIndices = {Least(NotAccepted(k))}

\* C3 amended: the error names language L and the input of test case i (the
\* response carries no index); the input singles out index i when the draft's
\* test-case inputs are pairwise distinct.
C3_FirstFailure ==
    \A k \in 1..Len(allResults) :
        NotAccepted(k) # {} =>
            /\ FirstFailureReported(k, Least(NotAccepted(k)))
            /\ Least(NotAccepted(k)) \in ReportedIndices
            /\ DistinctInputs => ReportedIndices = {Least(NotAccepted(k))}

C3_Witness ==
    /\ ppc = "done"
    /\ Len(allResults) = 2
    /\ Len(TestCases) = 2
    /\ DistinctInputs
    /\ NotAccepted(2) = {2}

\* C4: a requester whose role is not ADMIN gets 401/403, and the run makes no
\* judge call and no store call, whatever the body.
C4_NonAdmin ==
    (ppc # "idle" /\ reqUser.role # "ADMIN") =>
        /\ judgeLog = <<>>
        /\ judgeUnits = <<>>
        /\ storeCalls = 0
        /\ problems = <<>>
        /\ ppc \in {"authorize", "done"}
        /\ ppc = "done" => (Len(pres) = 1 /\ pres[1].status \in {401, 403})

C4_Witness ==
    /\ ppc = "done"
    /\ reqUser.role = "USER"
    /\ Len(Entries) = 2
    /\ FirstUnresolved = 0
    /\ Len(TestCases) = 2

\* C5: every batch handed to submitBatch has at most 20 units, and a judged
\* language's results are one per test case, result k being test case k's.
C5_Chunking ==
    /\ \A n \in 1..Len(judgeLog) :
        judgeLog[n].op = "submitBatch" => judgeLog[n].size <= MaxBatchSize
    /\ \A k \in 1..Len(allResults) :
        /\ Len(allResults[k]) = Len(TestCases)
        /\ \A i \in 1..Len(TestCases) : judgeUnits[allResults[k][i].token] = UnitOf(k, i)

\* C7: a judge call's failure reaches the caller with its kind, is not retried,
\* and nothing is stored.
C7_ErrorKindPreserved ==
    (ppc = "done" /\ judgeFailure # <<>>) =>
        /\ pres[1].status >= 500
        /\ pres[1].error = judgeFailure
        /\ \A m, n \in 1..Len(judgeLog) :
            (judgeLog[m].op = judgeLog[n].op /\ judgeLog[m].lang = judgeLog[n].lang) => m = n
        /\ storeCalls = 0
        /\ problems = <<>>

(***************************************************************************)
(* Properties of register, login and logout (AuthSpec).                    *)
(***************************************************************************)
\* C6 as stated: register for an email that is taken when the request arrives
\* answers 400, sets no cookie and creates no user record.
C6_Original ==
    \A c \in Clients :
        (areq[c].op = "register" /\ existedAtCall[c] /\ apc[c] = "idle") =>
            /\ ares[c] = <<AuthResponse(400, <<"User already exists">>, <<>>, <<>>)>>
            /\ ~created[c]

\* C6 amended: register for an email that is taken when the request arrives sets
\* no cookie and creates no user record; it answers 400 when its lookup returns,
\* and 500 with the error's message when the lookup itself rejects.
C6_DuplicateRegister ==
    \A c \in Clients :
        (areq[c].op = "register" /\ existedAtCall[c]) =>
            /\ ~created[c]
            /\ apc[c] \in {"register", "idle"}
            /\ Cardinality({u \in users : u.email = areq[c].email}) = 1
            /\ apc[c] = "idle" =>
                IF threw[c] = <<>>
                THEN /\ found[c] # <<>>
                     /\ ares[c] = <<AuthResponse(400, <<"User already exists">>,
                                                 <<>>, <<>>)>>
                ELSE /\ found[c] = <<>>
                     /\ threw[c][1] \in DbErrors
                     /\ ares[c] = <<AuthResponse(500, threw[c], <<>>, <<>>)>>

C6_Witness ==
    \E c, d \in Clients :
        /\ areq[c].op = "register"
        /\ existedAtCall[c]
        /\ apc[c] = "idle"
        /\ ares[c] # <<>>
        /\ ares[c][1].status = 400
        /\ areq[d].op = "register"
        /\ existedAtCall[d]
        /\ apc[d] = "idle"
        /\ ares[d] # <<>>
        /\ ares[d][1].status = 500

\* C8: login answers 201 with the user and a cookie carrying the user's id exactly
\* when a user with the email exists and the password matches the stored hash;
\* otherwise it answers 401 and sets no cookie. Stated for the logins in which no
\* call threw.
C8_Login ==
    \A c \in Clients :
        (areq[c].op = "login" /\ apc[c] = "idle" /\ threw[c] = <<>>) =>
            \* found[c] is what the lookup returned: the record with the email, if any
            /\ existedAtCall[c] => found[c] # <<>>
            /\ found[c] # <<>> => (found[c][1] \in users /\ found[c][1].email = areq[c].email)
            /\ IF found[c] # <<>> /\ found[c][1].password = Hash(areq[c].password)
               THEN /\ ares[c] = <<AuthResponse(201, <<"User logged in successfully">>,
                                                <<PublicUser(found[c][1])>>,
                                                <<Sign(found[c][1].id)>>)>>
                    /\ cookie[c] = <<Sign(found[c][1].id)>>
               ELSE /\ Len(ares[c]) = 1
                    /\ ares[c][1].status = 401
                    /\ ares[c][1].setCookie = <<>>

\* C9: a logout request of a client with a valid session is answered, and the
\* client's session cookie is cleared; stated on the returned handler, after which
\* nothing more happens for the request.
C9_Logout ==
    \A c \in Clients :
        (areq[c].op = "logout" /\ apc[c] = "idle") =>
            /\ ares[c] # <<>>
            /\ cookie[c] = <<>>

\* C10: the user store never holds two records with one email, and at most one
\* register request per email is answered with a session cookie.
C10_EmailUnique ==
    /\ \A u1, u2 \in users : u1.email = u2.email => u1 = u2
    /\ \A e \in Emails : sessionsIssued[e] <= 1

C10_Witness ==
    \E c, d \in Clients :
        /\ c # d
        /\ areq[c].op = "register"
        /\ areq[d].op = "register"
        /\ areq[c].email = areq[d].email
        /\ ~existedAtCall[c]
        /\ ~existedAtCall[d]
        /\ found[c] = <<>>
        /\ found[d] = <<>>
        /\ apc[c] = "idle"
        /\ apc[d] = "idle"
        /\ ares[c] # <<>>
        /\ ares[d] # <<>>
        /\ ares[c][1].status = 201
        /\ ares[d][1].status = 500

====
